---- MODULE Spec2Model ----
(***************************************************************************)
(* Model of unicode::BasicString (String.hpp): a UTF-8 buffer with a       *)
(* lazily evaluated, memoized Layout that maps character (grapheme         *)
(* cluster) indices to byte ranges.                                        *)
(*                                                                         *)
(* The buffer is a sequence of code points.  A code point is a record      *)
(* [n |-> its UTF-8 length in bytes, ext |-> TRUE iff its                  *)
(* Grapheme_Cluster_Break property is Extend].  The byte length of the     *)
(* buffer is the sum of the n fields.                                      *)
(*                                                                         *)
(* Unsigned 32-bit values (CharacterIndex, SizeType) are held as the       *)
(* signed integer with the same 32 bits, so a negative model value v       *)
(* stands for the C++ value 2^32 + v; ULess is the unsigned comparison.    *)
(***************************************************************************)
EXTENDS Integers, Sequences, FiniteSets, TLC

VARIABLES
    bytes,        \* BasicString::bytes
    _layout,      \* BasicString::_layout
    NDEBUG,       \* TRUE iff the build disables assert()
    pc,           \* "ok" | "aborted" (failed assert) | "crashed" | "undefined"
    last,         \* the most recent call: operation, argument, returned value
    evaluations,  \* calls of Layout::getFor since construction / last mutation
    appends       \* number of operator+= calls made

vars == <<bytes, _layout, NDEBUG, pc, last, evaluations, appends>>

----------------------------------------------------------------------------
(* Bounds of the model *)

MaxAppends == 2
MaxEvaluations == 2
RunLen == 17

----------------------------------------------------------------------------
(* Code points and the strings used as inputs *)

A == [n |-> 1, ext |-> FALSE]   \* ASCII letter
L == [n |-> 2, ext |-> FALSE]   \* two-byte letter (e.g. Cyrillic)
M == [n |-> 2, ext |-> TRUE]    \* two-byte combining mark (e.g. U+0301)
E == [n |-> 4, ext |-> FALSE]   \* four-byte emoji
V == [n |-> 4, ext |-> TRUE]    \* four-byte emoji modifier (Extend)

Rep(c, k) == [i \in 1..k |-> c]

\* One grapheme cluster of 4 + 3 * 4 = 16 bytes
W == <<E, V, V, V>>

\* One grapheme cluster of 4 + 63 * 4 = 256 bytes
Big == <<E>> \o Rep(V, 63)

\* arguments of BasicString(std::string)
Utf8Strings ==
    { <<>>, <<A>>, <<L>>, <<M>>, <<A, A, A, L>>, Rep(A, RunLen),
      Rep(L, RunLen), Big }

\* arguments of fromASCII and repeat
AsciiStrings == { <<>>, <<A>>, Rep(A, 3) }

\* arguments of operator+=
AppendStrings == { <<>>, <<A>>, <<M>>, <<L>>, W }

----------------------------------------------------------------------------
(* Fixed-width arithmetic *)

ToUInt8(x)  == x % 256
ToUInt16(x) == x % 65536
ToUInt4(x)  == x % 16

\* unsigned 32-bit "a < b" on the signed representation
ULess(a, b) == IF (a < 0) = (b < 0) THEN a < b ELSE b < 0

\* number of bytes of the code points str[a..b]
RECURSIVE byteLength(_, _, _)
byteLength(str, a, b) ==
    IF a > b THEN 0
    ELSE IF a = b THEN str[a].n
    ELSE LET m == (a + b) \div 2
         IN byteLength(str, a, m) + byteLength(str, m + 1, b)

\* std::string::size(): number of bytes
size_bytes(str) == byteLength(str, 1, Len(str))

----------------------------------------------------------------------------
(* icu::BreakIterator (character instance): the offsets returned by the    *)
(* successive calls of next() until DONE.  Rule GB9 (no break before       *)
(* Extend), a break before every other code point, and at the end of text. *)

\* the boundaries that lie after the code points text[a..b], where off is
\* the byte offset of text[a]
RECURSIVE nextFrom(_, _, _, _)
nextFrom(text, a, b, off) ==
    IF a > b THEN <<>>
    ELSE IF a = b
    THEN IF a = Len(text) \/ ~ text[a + 1].ext
         THEN <<off + text[a].n>> ELSE <<>>
    ELSE LET m == (a + b) \div 2
         IN nextFrom(text, a, m, off)
            \o nextFrom(text, m + 1, b, off + byteLength(text, a, m))

getCharacterBreakIterator(utext) == nextFrom(utext, 1, Len(utext), 0)

----------------------------------------------------------------------------
(* detail::calculateSizeInCharacters                                       *)
(* Result: size, the number of segmentation passes made (passes), and      *)
(* ub = TRUE when the iterator is nullptr and is dereferenced.             *)

calculateSizeInCharacters_noFastPath(text, segOk) ==
    IF Len(text) = 0 THEN [size |-> 0, passes |-> 0, ub |-> FALSE]
    ELSE IF ~ segOk THEN [size |-> 0, passes |-> 1, ub |-> TRUE]
    ELSE [size |-> Len(getCharacterBreakIterator(text)), passes |-> 1,
          ub |-> FALSE]

calculateSizeInCharacters(text, segOk) ==
    IF Len(text) = 0 THEN [size |-> 0, passes |-> 0, ub |-> FALSE]
    ELSE IF size_bytes(text) = 1 THEN [size |-> 1, passes |-> 0, ub |-> FALSE]
    ELSE IF ~ segOk THEN [size |-> 0, passes |-> 1, ub |-> TRUE]
    ELSE [size |-> Len(getCharacterBreakIterator(text)), passes |-> 1,
          ub |-> FALSE]

----------------------------------------------------------------------------
(* Layout and Layout::Block *)

NOT_EVALUATED == 0

\* SizeType size = -1, i.e. 2^32 - 1 in the signed representation
SIZE_DEFAULT == 0 - 1

\* Layout{}
DefaultLayout ==
    [averageCharacterSize |-> NOT_EVALUATED, size |-> SIZE_DEFAULT,
     blocks |-> <<>>]

characterSize(block) == block.characterSizeMinusOne + 1

charactersCount(block) == block.charactersCountMinusOne + 1

isFull(block) == charactersCount(block) = 16

containsCharacterIndex(block, index) ==
    /\ ~ ULess(index, block.firstCharacter)
    /\ ULess(index, block.firstCharacter + charactersCount(block))

isEvaluated(lay) == lay.averageCharacterSize # NOT_EVALUATED

isASCII_noBlocks(lay) == lay.averageCharacterSize = 1

\* Layout::isASCII
isASCII(lay) ==
    lay.averageCharacterSize = 1 /\ Len(lay.blocks) = 0

characterSizeDifference(lay, block) ==
    characterSize(block) - lay.averageCharacterSize

----------------------------------------------------------------------------
(* SortedVector<Block, std::less<>> (SortedVector.hpp): a vector kept      *)
(* sorted by firstCharacter.                                               *)

push_back(blocks, block) == Append(blocks, block)

\* position of the first block whose firstCharacter is greater than index,
\* Len(blocks) + 1 when there is none
upper_bound(blocks, index) ==
    LET greater == { i \in 1..Len(blocks) :
                        ULess(index, blocks[i].firstCharacter) }
    IN  IF greater = {} THEN Len(blocks) + 1
        ELSE CHOOSE i \in greater : \A j \in greater : i <= j

----------------------------------------------------------------------------
(* Layout::getFor                                                          *)

maxSize == 2147483647

\* Block{.firstCharacter, .firstByteDifference} followed by
\* setCharacterSize(characterByteSize): the 4-bit field keeps size - 1
newBlock(characterIndex, byteDifference, characterByteSize) ==
    [firstCharacter |-> characterIndex,
     firstByteDifference |-> byteDifference,
     charactersCountMinusOne |-> 0,
     characterSizeMinusOne |-> ToUInt4(characterByteSize - 1)]

incrementCharactersCount(block) ==
    [block EXCEPT !.charactersCountMinusOne = ToUInt4(@ + 1)]

\* state of the loop before its first iteration
loopInit(lay) ==
    [blocks |-> <<>>,
     currentBlock |-> <<>>,            \* std::optional<Block>
     previousCharacterSize |-> lay.averageCharacterSize,
     characterIndex |-> 0,
     byteDifference |-> 0,
     assertFailed |-> FALSE,           \* an assert() was violated
     ub |-> FALSE]                     \* an empty optional was dereferenced

\* one iteration of the loop over the character [start, end)
loopBody_closeOnAverage(lay, st, start, end) ==
    LET characterByteSize == ToUInt16(end - start)
        same == characterByteSize = st.previousCharacterSize
        advance(s) == [s EXCEPT !.characterIndex = @ + 1]
    IN
    IF same /\ st.previousCharacterSize = lay.averageCharacterSize
    THEN advance(st)
    ELSE IF same /\ Len(st.currentBlock) = 0
    THEN advance([st EXCEPT !.assertFailed = TRUE, !.ub = TRUE])
    ELSE IF same /\ ~ isFull(st.currentBlock[1])
    THEN advance([st EXCEPT
             !.currentBlock = <<incrementCharactersCount(@[1])>>])
    ELSE
        LET flushed == Len(st.currentBlock) > 0
            byteDifference1 ==
                IF flushed
                THEN st.byteDifference
                     + charactersCount(st.currentBlock[1])
                       * characterSizeDifference(lay, st.currentBlock[1])
                ELSE st.byteDifference
            blocks1 == IF flushed
                       THEN push_back(st.blocks, st.currentBlock[1])
                       ELSE st.blocks
        IN advance([st EXCEPT
               !.blocks = blocks1,
               !.byteDifference = byteDifference1,
               !.currentBlock =
                   IF characterByteSize = lay.averageCharacterSize
                   THEN <<>>
                   ELSE <<newBlock(st.characterIndex, byteDifference1,
                                   characterByteSize)>>,
               !.previousCharacterSize = characterByteSize,
               !.assertFailed =
                   @ \/ ~ (characterByteSize > 0 /\ characterByteSize <= 16)])

loopBody(lay, st, start, end) ==
    LET characterByteSize == ToUInt16(end - start)
        same == characterByteSize = st.previousCharacterSize
        advance(s) == [s EXCEPT !.characterIndex = @ + 1]
    IN
    IF same /\ st.previousCharacterSize = lay.averageCharacterSize
    THEN advance(st)
    ELSE IF same /\ Len(st.currentBlock) = 0
    THEN advance([st EXCEPT !.assertFailed = TRUE, !.ub = TRUE])
    ELSE IF same /\ ~ isFull(st.currentBlock[1])
    THEN advance([st EXCEPT
             !.currentBlock = <<incrementCharactersCount(@[1])>>])
    ELSE
        LET flushed == Len(st.currentBlock) > 0
            byteDifference1 ==
                IF flushed
                THEN st.byteDifference
                     + charactersCount(st.currentBlock[1])
                       * characterSizeDifference(lay, st.currentBlock[1])
                ELSE st.byteDifference
            blocks1 == IF flushed
                       THEN push_back(st.blocks, st.currentBlock[1])
                       ELSE st.blocks
        IN advance([st EXCEPT
               !.blocks = blocks1,
               !.byteDifference = byteDifference1,
               !.currentBlock =
                   <<newBlock(st.characterIndex, byteDifference1,
                              characterByteSize)>>,
               !.previousCharacterSize = characterByteSize,
               !.assertFailed =
                   @ \/ ~ (characterByteSize > 0 /\ characterByteSize <= 16)])

\* the loop: start = it->first() = 0, then end = it->next() until DONE
RECURSIVE loopFrom(_, _, _, _, _)
loopFrom(lay, ends, k, start, st) ==
    IF k > Len(ends) THEN st
    ELSE loopFrom(lay, ends, k + 1, ends[k],
                  loopBody(lay, st, start, ends[k]))

\* Result: status "ok" (a Layout is returned), or "ub" (nullptr iterator
\* dereferenced); assertFailed tells whether an assert() was violated on the
\* way; passes counts the segmentation passes over str.
getFor(str, segOk) ==
    LET nbytes == size_bytes(str)
        c == calculateSizeInCharacters(str, segOk)
        tooBig == nbytes > maxSize
    IN
    IF c.ub
    THEN [status |-> "ub", lay |-> DefaultLayout, passes |-> c.passes,
          assertFailed |-> tooBig]
    ELSE IF c.size = nbytes
    THEN [status |-> "ok",
          lay |-> [averageCharacterSize |-> 1, size |-> c.size,
                   blocks |-> <<>>],
          passes |-> c.passes, assertFailed |-> tooBig]
    ELSE
        LET lay0 == [averageCharacterSize |->
                        ToUInt8(ToUInt16((2 * nbytes + c.size)
                                         \div (2 * c.size))),
                     size |-> c.size,
                     blocks |-> <<>>]
            st == loopFrom(lay0, getCharacterBreakIterator(str), 1, 0,
                           loopInit(lay0))
            blocks1 == IF Len(st.currentBlock) > 0
                       THEN push_back(st.blocks, st.currentBlock[1])
                       ELSE st.blocks
        IN [status |-> IF st.ub THEN "ub" ELSE "ok",
            lay |-> [lay0 EXCEPT !.blocks = blocks1],
            passes |-> c.passes + 1,
            assertFailed |-> tooBig \/ st.assertFailed]

----------------------------------------------------------------------------
(* Queries against a Layout                                                *)

\* position in blocks of the block that contains the character or is the
\* nearest before it; 0 stands for blocks.rend()
getNearestLeftBlock(lay, index) == upper_bound(lay.blocks, index) - 1

\* unsigned 32-bit product, in the signed representation
estimateFirstByteIndex(lay, index) == index * lay.averageCharacterSize

\* Result: the byte index is wrap * 2^32 + index (size_t holds the
\* zero-extended 32-bit estimate), size in bytes, and whether
\* assert(isEvaluated()) was violated.
getCharacterByteIndexAndSize_noInBlockOffset(lay, characterIndex) ==
    LET estimate == estimateFirstByteIndex(lay, characterIndex)
        res == [index |-> estimate,
                wrap |-> IF estimate < 0 THEN 1 ELSE 0,
                size |-> lay.averageCharacterSize,
                assertFailed |-> ~ isEvaluated(lay)]
        end == getNearestLeftBlock(lay, characterIndex)
    IN
    IF Len(lay.blocks) = 0 THEN res
    ELSE IF end = 0 THEN res
    ELSE LET block == lay.blocks[end]
             res1 == [res EXCEPT !.index = @ + block.firstByteDifference]
         IN IF containsCharacterIndex(block, characterIndex)
            THEN [res1 EXCEPT !.size = characterSize(block)]
            ELSE res1

getCharacterByteIndexAndSize(lay, characterIndex) ==
    LET estimate == estimateFirstByteIndex(lay, characterIndex)
        res == [index |-> estimate,
                wrap |-> IF estimate < 0 THEN 1 ELSE 0,
                size |-> lay.averageCharacterSize,
                assertFailed |-> ~ isEvaluated(lay)]
        end == getNearestLeftBlock(lay, characterIndex)
    IN
    IF Len(lay.blocks) = 0 THEN res
    ELSE IF end = 0 THEN res
    ELSE LET block == lay.blocks[end]
             res1 == [res EXCEPT !.index = @ + block.firstByteDifference]
         IN IF containsCharacterIndex(block, characterIndex)
            THEN [res1 EXCEPT
                     !.size = characterSize(block),
                     !.index = @ + (characterIndex - block.firstCharacter)
                                   * characterSizeDifference(lay, block)]
            ELSE res1

----------------------------------------------------------------------------
(* BasicString: construction                                               *)

\* BasicString()
BasicString_default ==
    [bytes |-> <<>>,
     lay |-> [averageCharacterSize |-> 1, size |-> 0, blocks |-> <<>>]]

\* BasicString::fromASCII(ascii), also behind repeat(c, times)
fromASCII(ascii) ==
    [bytes |-> ascii,
     lay |-> [DefaultLayout EXCEPT !.size = size_bytes(ascii),
                                   !.averageCharacterSize = 1]]

\* BasicString(std::string str)
BasicString_utf8(str) == [bytes |-> str, lay |-> DefaultLayout]

isEmpty(b) == Len(b) = 0

layoutIsEvaluated(lay) == isEvaluated(lay)

----------------------------------------------------------------------------
(* BasicString::layout(): the Layout to use, built when not evaluated      *)

layout(segOk) ==
    IF ~ isEvaluated(_layout)
    THEN LET r == getFor(bytes, segOk)
         IN [status |-> r.status, lay |-> r.lay, built |-> TRUE,
             passes |-> r.passes, assertFailed |-> r.assertFailed]
    ELSE [status |-> "ok", lay |-> _layout, built |-> FALSE,
          passes |-> 0, assertFailed |-> FALSE]

\* absoluteIndex(relative): value returned and whether an assert is violated
absoluteIndex_offByOne(lay, relative) ==
    [value |-> lay.size + relative + 1,
     assertFailed |-> relative > 0 \/ ULess(lay.size, 0 - relative)]

absoluteIndex(lay, relative) ==
    [value |-> lay.size + relative,
     assertFailed |-> relative > 0 \/ ULess(lay.size, 0 - relative)]

\* operator+=(str): the buffer and the Layout after the call
operatorPlusAssign_keepLayout(b, lay, str) ==
    IF Len(str) = 0 THEN [bytes |-> b, lay |-> lay]
    ELSE [bytes |-> b \o str, lay |-> lay]

operatorPlusAssign_onlyBigger(b, lay, str) ==
    IF Len(str) = 0 THEN [bytes |-> b, lay |-> lay]
    ELSE [bytes |-> b \o str,
          lay |-> IF size_bytes(b) <= size_bytes(str)
                  THEN DefaultLayout ELSE lay]

operatorPlusAssign(b, lay, str) ==
    IF Len(str) = 0 THEN [bytes |-> b, lay |-> lay]
    ELSE LET lay1 == IF size_bytes(b) <= size_bytes(str)
                     THEN DefaultLayout ELSE lay
             bytes1 == b \o str
             lay2 == IF ~ isEmpty(bytes1) /\ layoutIsEvaluated(lay1)
                     THEN DefaultLayout ELSE lay1
         IN [bytes |-> bytes1, lay |-> lay2]

----------------------------------------------------------------------------
(* The state machine                                                       *)

Ret(kind, a, b, wrap) == [kind |-> kind, a |-> a, b |-> b, wrap |-> wrap]

\* the record of a call; oldLen is the length of the buffer before it
Call(op, arg, str, ret, built, passes, segFail) ==
    [op |-> op, arg |-> arg, str |-> str, ret |-> ret, built |-> built,
     passes |-> passes, segFail |-> segFail,
     wasEvaluated |-> isEvaluated(_layout),
     oldLen |-> Len(bytes)]

Constructed(v, op) ==
    /\ bytes = v.bytes
    /\ _layout = v.lay
    /\ last = [op |-> op, arg |-> 0, str |-> v.bytes,
               ret |-> Ret("none", 0, 0, 0), built |-> FALSE, passes |-> 0,
               segFail |-> FALSE, wasEvaluated |-> FALSE, oldLen |-> 0]

Init ==
    /\ NDEBUG \in BOOLEAN
    /\ pc = "ok"
    /\ evaluations = 0
    /\ appends = 0
    /\ \/ Constructed(BasicString_default, "BasicString")
       \/ \E ascii \in AsciiStrings : Constructed(fromASCII(ascii), "fromASCII")
       \/ \E str \in Utf8Strings :
            Constructed(BasicString_utf8(str), "BasicString")

\* A const member that uses layout(): r is the result of layout(segOk),
\* opAssert tells whether an assert of the member itself is violated, ret is
\* the value the member returns when it runs to its end.
Query(op, arg, r, opAssert, ret) ==
    /\ r.built => evaluations < MaxEvaluations
    /\ evaluations' = IF r.built THEN evaluations + 1 ELSE evaluations
    /\ UNCHANGED <<bytes, NDEBUG, appends>>
    /\ LET info(x) == Call(op, arg, <<>>, x, r.built, r.passes,
                           r.status = "ub")
       IN
       IF r.status = "ub"
       THEN \* it->next() on a null iterator
            \/ /\ pc' = "crashed"
               /\ _layout' = _layout
               /\ last' = info(Ret("crash", 0, 0, 0))
            \/ \E g \in {0, 1} :
               /\ pc' = "undefined"
               /\ _layout' = [averageCharacterSize |-> g, size |-> 0,
                              blocks |-> <<>>]
               /\ last' = info(Ret(ret.kind, 0, 0, 0))
       ELSE IF r.assertFailed /\ ~ NDEBUG
       THEN /\ pc' = "aborted"
            /\ _layout' = _layout
            /\ last' = info(Ret("abort", 0, 0, 0))
       ELSE IF opAssert /\ ~ NDEBUG
       THEN /\ pc' = "aborted"
            /\ _layout' = r.lay
            /\ last' = info(Ret("abort", 0, 0, 0))
       ELSE /\ pc' = "ok"
            /\ _layout' = r.lay
            /\ last' = info(ret)

\* outcomes of opening the segmenter, when the call opens it at all
SegOutcomes == IF isEvaluated(_layout) THEN {TRUE} ELSE BOOLEAN

\* size()
Size ==
    /\ pc = "ok"
    /\ \E segOk \in SegOutcomes :
         LET r == layout(segOk)
         IN Query("size", 0, r, FALSE, Ret("size", r.lay.size, 0, 0))

\* isASCII()
IsASCII ==
    /\ pc = "ok"
    /\ \E segOk \in SegOutcomes :
         LET r == layout(segOk)
         IN Query("isASCII", 0, r, ~ isEvaluated(r.lay),
                  Ret("bool", IF isASCII(r.lay) THEN 1 ELSE 0, 0, 0))

\* operator[](PositiveIndex) on the Layout lay
subscript(lay, index) ==
    LET res == getCharacterByteIndexAndSize(lay, index)
    IN [assertFailed |-> ~ ULess(index, lay.size) \/ res.assertFailed,
        ret |-> Ret("character", res.index, res.size, res.wrap)]

\* operator[](NegativeIndex) on the Layout lay
subscriptSigned(lay, index) ==
    IF index < 0
    THEN LET abs == absoluteIndex(lay, index)
             sub == subscript(lay, abs.value)
         IN [sub EXCEPT !.assertFailed = @ \/ abs.assertFailed]
    ELSE subscript(lay, index)

\* the indices asked for: the ends of the buffer, the places after the
\* 16-character limit of a block, and out-of-range ones
Indices ==
    LET n == Len(getCharacterBreakIterator(bytes))
    IN {0, 16, 17, n - 1, n, n + 1} \cap 0..(n + 1)

SignedIndices == Indices \cup { 0 - i : i \in Indices }

At ==
    /\ pc = "ok"
    /\ \E segOk \in SegOutcomes, index \in Indices :
         LET r == layout(segOk)
             sub == subscript(r.lay, index)
         IN Query("at", index, r, sub.assertFailed, sub.ret)

AtSigned ==
    /\ pc = "ok"
    /\ \E segOk \in SegOutcomes, index \in SignedIndices :
         LET r == layout(segOk)
             sub == subscriptSigned(r.lay, index)
         IN Query("atSigned", index, r, sub.assertFailed, sub.ret)

\* operator+=(str)
AppendStr ==
    /\ pc = "ok"
    /\ appends < MaxAppends
    /\ \E str \in AppendStrings :
         LET v == operatorPlusAssign(bytes, _layout, str)
         IN /\ bytes' = v.bytes
            /\ _layout' = v.lay
            /\ evaluations' = IF Len(str) = 0 THEN evaluations ELSE 0
            /\ last' = Call("append", 0, str, Ret("void", 0, 0, 0),
                            FALSE, 0, FALSE)
    /\ appends' = appends + 1
    /\ UNCHANGED <<NDEBUG, pc>>

Next ==
    \/ Size
    \/ IsASCII
    \/ At
    \/ AtSigned
    \/ AppendStr

Spec == Init /\ [][Next]_vars

----------------------------------------------------------------------------
(* Reference segmentation, computed from the code points directly: a       *)
(* grapheme cluster starts at the first code point and at every code point *)
(* that is not Extend.                                                     *)

RefStarts(text) ==
    SelectSeq([k \in 1..Len(text) |-> k],
              LAMBDA k : k = 1 \/ ~ text[k].ext)

RefCount(text) == Len(RefStarts(text))

\* number of bytes of the code points text[a..b]
RECURSIVE RangeBytes(_, _, _)
RangeBytes(text, a, b) ==
    IF a > b THEN 0
    ELSE IF a = b THEN text[a].n
    ELSE LET h == (a + b) \div 2
         IN RangeBytes(text, a, h) + RangeBytes(text, h + 1, b)

\* number of bytes of the first k code points
PrefixBytes(text, k) == RangeBytes(text, 1, k)

\* byte range of the i-th cluster, i counted from 0
RefRangeIn(text, starts, i) ==
    LET first == starts[i + 1]
        next == IF i + 2 <= Len(starts) THEN starts[i + 2] ELSE Len(text) + 1
    IN [index |-> PrefixBytes(text, first - 1),
        size |-> RangeBytes(text, first, next - 1)]

RefRange(text, i) == RefRangeIn(text, RefStarts(text), i)

RefChar(text, i) ==
    LET r == RefRange(text, i) IN Ret("character", r.index, r.size, 0)

\* every cluster is 1..16 bytes wide
WidthsFit(text) ==
    LET starts == RefStarts(text)
    IN \A i \in 0..(Len(starts) - 1) :
          RefRangeIn(text, starts, i).size \in 1..16

OneBytePerCharacter(text) ==
    LET starts == RefStarts(text)
    IN \A i \in 0..(Len(starts) - 1) : RefRangeIn(text, starts, i).size = 1

Queries == {"size", "isASCII", "at", "atSigned"}

\* last is an access with an index outside [0, size())
OutOfRange ==
    \/ last.op \in {"at", "atSigned"} /\ last.arg >= RefCount(bytes)
    \/ last.op = "atSigned" /\ last.arg < 0
       /\ 0 - last.arg > RefCount(bytes)

----------------------------------------------------------------------------
(* C1.  Round trip: when every cluster of the buffer is 1..16 bytes wide,  *)
(* an Evaluated Layout answers, for every index i < size(), the byte       *)
(* offset w_0 + ... + w_(i-1) and the size w_i of the reference            *)
(* segmentation, and so does operator[] (i).                               *)

ThmC1_RoundTrip ==
    (pc = "ok" /\ isEvaluated(_layout) /\ WidthsFit(bytes)) =>
        /\ LET starts == RefStarts(bytes)
           IN \A i \in 0..(Len(starts) - 1) :
                 LET r == RefRangeIn(bytes, starts, i)
                 IN subscript(_layout, i) =
                       [assertFailed |-> FALSE,
                        ret |-> Ret("character", r.index, r.size, 0)]
        /\ (last.op = "at" /\ last.arg < RefCount(bytes)) =>
              last.ret = RefChar(bytes, last.arg)

\* a character after a full block of 16 and two more blocks was asked for,
\* and its offset is not the plain estimate
WitC1_RoundTrip ==
    /\ pc = "ok" /\ WidthsFit(bytes)
    /\ last.op = "at" /\ last.arg < RefCount(bytes) /\ last.arg >= 17
    /\ evaluations > 0
    /\ Len(_layout.blocks) >= 3
    /\ \E b \in 1..Len(_layout.blocks) : isFull(_layout.blocks[b])
    /\ last.ret.a # last.arg * _layout.averageCharacterSize

(* C2.  size() returns the number of grapheme clusters of the current      *)
(* buffer, and an Evaluated Layout always describes the current buffer.    *)

ThmC2_Size ==
    pc = "ok" =>
        /\ last.op = "size" => last.ret.a = RefCount(bytes)
        /\ isEvaluated(_layout) => _layout.size = RefCount(bytes)

\* size() built the layout after an append, for a buffer in which a
\* cluster has several code points
WitC2_Size ==
    /\ pc = "ok" /\ last.op = "size" /\ last.built
    /\ appends > 0
    /\ last.ret.a >= 1 /\ last.ret.a < Len(bytes)

(* C3.  An access outside [0, size()) never returns a character.           *)

OrigC3_BoundsError ==
    (pc = "ok" /\ OutOfRange) => last.ret.kind # "character"

(* C4.  For every k < size(), operator[] with the signed index -(k+1)      *)
(* returns what operator[] returns for the absolute index size()-1-k.      *)

ThmC4_NegativeIndex ==
    (pc = "ok" /\ isEvaluated(_layout)) =>
        /\ \A k \in 0..(_layout.size - 1) :
              subscriptSigned(_layout, 0 - (k + 1)) =
                  subscript(_layout, _layout.size - 1 - k)
        /\ (last.op = "atSigned" /\ last.arg < 0
              /\ 0 - last.arg <= _layout.size) =>
              last.ret = subscript(_layout, _layout.size + last.arg).ret

\* a negative index in range was used on a layout with blocks
WitC4_NegativeIndex ==
    /\ pc = "ok" /\ last.op = "atSigned"
    /\ last.arg < 0 /\ 0 - last.arg <= _layout.size
    /\ Len(_layout.blocks) > 0
    /\ last.ret.kind = "character" /\ last.ret.a > 0

(* C5 (as claimed).  No append leaves an Evaluated Layout in place.        *)

OrigC5_AppendInvalidates ==
    (last.op = "append" /\ last.wasEvaluated) => ~ isEvaluated(_layout)

(* C5 (amended).  An append of a nonempty string concatenates it to the    *)
(* buffer and leaves the Layout NotEvaluated; an append of the empty       *)
(* string leaves the buffer and the Layout as they were; a query that      *)
(* finds the Layout NotEvaluated builds it over the current buffer.        *)

ThmC5_AppendInvalidates ==
    /\ (last.op = "append" /\ Len(last.str) > 0) =>
          /\ ~ isEvaluated(_layout)
          /\ Len(bytes) = last.oldLen + Len(last.str)
          /\ SubSeq(bytes, last.oldLen + 1, Len(bytes)) = last.str
    /\ (last.op = "append" /\ Len(last.str) = 0) =>
          /\ Len(bytes) = last.oldLen
          /\ isEvaluated(_layout) = last.wasEvaluated
    /\ (pc = "ok" /\ last.op \in Queries /\ ~ last.wasEvaluated) =>
          /\ last.built
          /\ _layout = getFor(bytes, TRUE).lay

\* a nonempty string, shorter than the buffer, was appended to a value
\* whose Layout was Evaluated
WitC5_AppendInvalidates ==
    /\ last.op = "append" /\ last.wasEvaluated
    /\ Len(last.str) > 0 /\ Len(last.str) < last.oldLen

(* C6.  With no append in between, the layout is built at most once.       *)

OrigC6_BuiltOnce == pc = "ok" => evaluations <= 1

(* C7.  isASCII() is true iff averageCharacterSize is 1 and there is no    *)
(* block, and that is so exactly when every cluster is one byte wide.      *)

OrigC8_DecodeError ==
    last.segFail =>
        /\ last.ret.kind = "DecodeError"
        /\ ~ isEvaluated(_layout)

(* C9.  A build of a buffer that is not one byte per character stores      *)
(* averageCharacterSize = round(byteLength / characterCount), and no       *)
(* build whose rounded mean exceeds 255 completes.                         *)

RoundedMean(text) ==
    (2 * PrefixBytes(text, Len(text)) + RefCount(text))
        \div (2 * RefCount(text))

OrigC9_AverageFits ==
    (pc = "ok" /\ last.built /\ ~ OneBytePerCharacter(bytes)) =>
        /\ RoundedMean(bytes) <= 255
        /\ _layout.averageCharacterSize = RoundedMean(bytes)

(* C10 (as claimed).  A build walks the segmentation at most once.         *)

OrigC10_OnePass == last.built => last.passes <= 1

(* C10 (amended).  A build makes no segmentation pass for a buffer of at   *)
(* most one byte, one pass for a buffer with one byte per character, and   *)
(* two passes (count, then run lengths) for any other buffer.              *)

ThmC10_Passes ==
    (pc = "ok" /\ last.built) =>
        last.passes =
            IF PrefixBytes(bytes, Len(bytes)) <= 1 THEN 0
            ELSE IF OneBytePerCharacter(bytes) THEN 1
            ELSE 2

\* a buffer with a multi-byte character was built
WitC10_Passes ==
    /\ pc = "ok" /\ last.built /\ last.passes = 2
    /\ ~ OneBytePerCharacter(bytes)

(* C11 (as claimed).  In an Evaluated Layout of a buffer whose clusters    *)
(* are 1..16 bytes wide, no block has characterSize equal to               *)
(* averageCharacterSize.                                                   *)

RefWidth(text, i) == ToUInt16(RefRange(text, i).size)

====
